---- MODULE Spec2Model ----
(***************************************************************************)
(* A model of next-cut: computePerformance (src/src/computePerformance.ts) *)
(* with its default parser and formatters, and the transformer             *)
(* transformSwimmingStandards.                                             *)
(*                                                                         *)
(* A JavaScript number is a record [k, v]: k = "fin" for a finite value,   *)
(* held in v as a whole count of 1/Scale units (fixed point), k = "inf"    *)
(* for an infinity with its sign in v, k = "nan" for NaN.  A JavaScript    *)
(* string is a sequence of one-character strings.                          *)
(***************************************************************************)
EXTENDS Integers, Sequences, FiniteSets, TLC

\* ------------------------------------------------------------------------
\* Bounds of the model
\* ------------------------------------------------------------------------
\* longest standards list of the matching inputs
MaxStandards == 3
\* longest standards list of the inputs that carry a levels schema
MaxSchemaStandards == 2
\* longest levels list
MaxLevels == 3

\* ------------------------------------------------------------------------
\* Numbers
\* ------------------------------------------------------------------------
\* resolution of the fixed-point representation of a finite number
Scale == 1000

NaN == [k |-> "nan", v |-> 0]
PosInf == [k |-> "inf", v |-> 1]
NegInf == [k |-> "inf", v |-> -1]
\* the finite number n / Scale
Fin(n) == [k |-> "fin", v |-> n]
\* the whole number n
Whole(n) == Fin(n * Scale)
Zero == Fin(0)

IsNaN(x) == x.k = "nan"
IsFinite(x) == x.k = "fin"

\* rank of a number among -Infinity < finite < +Infinity
Rank(x) == IF x.k = "inf" THEN x.v ELSE 0

\* a < b; false when either side is NaN
Lt(a, b) ==
  /\ ~IsNaN(a)
  /\ ~IsNaN(b)
  /\ IF IsFinite(a) /\ IsFinite(b) THEN a.v < b.v ELSE Rank(a) < Rank(b)

Gt(a, b) == Lt(b, a)

\* a == b as numbers; false when either side is NaN
NumEq(a, b) == ~IsNaN(a) /\ ~IsNaN(b) /\ a = b

Le(a, b) == Lt(a, b) \/ NumEq(a, b)

Ge(a, b) == Le(b, a)

\* a - b
Sub(a, b) ==
  IF IsNaN(a) \/ IsNaN(b) THEN NaN
  ELSE IF IsFinite(a) /\ IsFinite(b) THEN Fin(a.v - b.v)
  ELSE IF IsFinite(b) THEN a
  ELSE IF IsFinite(a) THEN [k |-> "inf", v |-> 0 - b.v]
  ELSE IF a.v = b.v THEN NaN
  ELSE a

\* Math.abs
MathAbs(x) ==
  IF IsFinite(x) THEN Fin(IF x.v < 0 THEN 0 - x.v ELSE x.v)
  ELSE IF IsNaN(x) THEN NaN
  ELSE PosInf

\* Math.max(0, x)
MathMax0(x) ==
  IF IsNaN(x) THEN NaN
  ELSE IF Gt(x, Zero) THEN x
  ELSE Zero

\* ------------------------------------------------------------------------
\* Strings
\* ------------------------------------------------------------------------
Digits == {"0", "1", "2", "3", "4", "5", "6", "7", "8", "9"}

DigitVal(c) ==
  CASE c = "0" -> 0 [] c = "1" -> 1 [] c = "2" -> 2 [] c = "3" -> 3
    [] c = "4" -> 4 [] c = "5" -> 5 [] c = "6" -> 6 [] c = "7" -> 7
    [] c = "8" -> 8 [] c = "9" -> 9

\* \d+
IsDigits(s) == Len(s) > 0 /\ \A i \in 1..Len(s) : s[i] \in Digits

\* \d\d
IsTwoDigits(s) == Len(s) = 2 /\ s[1] \in Digits /\ s[2] \in Digits

\* [0-5]\d
IsSexagesimal(s) ==
  Len(s) = 2 /\ s[1] \in {"0", "1", "2", "3", "4", "5"} /\ s[2] \in Digits

\* parseInt(s, 10) of a string of digits
RECURSIVE ParseInt(_)
ParseInt(s) ==
  IF Len(s) = 0 THEN 0
  ELSE 10 * ParseInt(SubSeq(s, 1, Len(s) - 1)) + DigitVal(s[Len(s)])

RECURSIVE Pow10(_)
Pow10(n) == IF n = 0 THEN 1 ELSE 10 * Pow10(n - 1)

\* parseFloat('0.' + digits), in 1/Scale units; digits past the resolution
\* of the representation are dropped
ParseFraction(s) ==
  IF Len(s) <= 3 THEN ParseInt(s) * Pow10(3 - Len(s))
  ELSE ParseInt(SubSeq(s, 1, 3))

\* positions of the character c in s
Positions(s, c) == {i \in 1..Len(s) : s[i] = c}

\* String.prototype.trim, for the blank character
RECURSIVE Trim(_)
Trim(s) ==
  IF Len(s) = 0 THEN s
  ELSE IF s[1] = " " THEN Trim(Tail(s))
  ELSE IF s[Len(s)] = " " THEN Trim(SubSeq(s, 1, Len(s) - 1))
  ELSE s

\* (\d+)(?:\.(\d+))?  matched against the whole of s
IsDecimal(s) ==
  LET dots == Positions(s, ".") IN
    IF dots = {} THEN IsDigits(s)
    ELSE /\ Cardinality(dots) = 1
         /\ LET d == CHOOSE i \in dots : TRUE IN
              /\ IsDigits(SubSeq(s, 1, d - 1))
              /\ IsDigits(SubSeq(s, d + 1, Len(s)))

\* value, in 1/Scale units, of a string that IsDecimal
DecimalVal(s) ==
  LET dots == Positions(s, ".") IN
    IF dots = {} THEN ParseInt(s) * Scale
    ELSE LET d == CHOOSE i \in dots : TRUE IN
           ParseInt(SubSeq(s, 1, d - 1)) * Scale
             + ParseFraction(SubSeq(s, d + 1, Len(s)))

\* ([0-5]\d)(?:\.(\d+))?  matched against the whole of s
IsSeconds(s) ==
  /\ Len(s) >= 2
  /\ IsSexagesimal(SubSeq(s, 1, 2))
  /\ \/ Len(s) = 2
     \/ /\ Len(s) >= 4
        /\ s[3] = "."
        /\ IsDigits(SubSeq(s, 4, Len(s)))

\* seconds + fraction of a string that IsSeconds, in 1/Scale units
SecondsVal(s) ==
  ParseInt(SubSeq(s, 1, 2)) * Scale
    + (IF Len(s) > 2 THEN ParseFraction(SubSeq(s, 4, Len(s))) ELSE 0)

\* Number(s) of a trimmed string over the characters of the model (digits,
\* sign, point, colon, blank, letters outside the numeric grammar): the
\* empty string is 0, a signed decimal with digits on at least one side of
\* the point is its value, "Infinity" with an optional sign is infinite,
\* everything else is NaN
Number(s) ==
  LET signed == Len(s) > 0 /\ s[1] \in {"-", "+"}
      sign == IF Len(s) > 0 /\ s[1] = "-" THEN 0 - 1 ELSE 1
      body == IF signed THEN Tail(s) ELSE s
      dots == Positions(body, ".")
  IN
    IF Len(s) = 0 THEN Zero
    ELSE IF body = <<"I", "n", "f", "i", "n", "i", "t", "y">>
      THEN [k |-> "inf", v |-> sign]
    ELSE IF IsDigits(body) THEN Fin(sign * ParseInt(body) * Scale)
    ELSE IF Cardinality(dots) = 1
      THEN LET d == CHOOSE i \in dots : TRUE
               ip == SubSeq(body, 1, d - 1)
               fp == SubSeq(body, d + 1, Len(body))
           IN IF /\ (Len(ip) = 0 \/ IsDigits(ip))
                 /\ (Len(fp) = 0 \/ IsDigits(fp))
                 /\ Len(ip) + Len(fp) > 0
              THEN Fin(sign * (ParseInt(ip) * Scale + ParseFraction(fp)))
              ELSE NaN
    ELSE NaN

\* ------------------------------------------------------------------------
\* Raw values: what a caller passes as a metric or as a cut
\* ------------------------------------------------------------------------
RawNum(x) == [t |-> "num", n |-> x, s |-> <<>>]
RawStr(str) == [t |-> "str", n |-> NaN, s |-> str]
RawUndefined == [t |-> "undefined", n |-> NaN, s |-> <<>>]

\* the first and the last position of a non-empty set of positions
FirstOf(at) == CHOOSE i \in at : \A j \in at : i <= j
LastOf(at) == CHOOSE i \in at : \A j \in at : i >= j

\* ^(\d+):([0-5]\d):([0-5]\d)(?:\.(\d+))?$ for a string s with exactly two
\* colons, at c1 and c2
IsHoursForm(s, c1, c2) ==
  /\ IsDigits(SubSeq(s, 1, c1 - 1))
  /\ IsSexagesimal(SubSeq(s, c1 + 1, c2 - 1))
  /\ IsSeconds(SubSeq(s, c2 + 1, Len(s)))

\* hours * 3600 + minutes * 60 + seconds + fraction
HoursFormVal(s, c1, c2) ==
  ParseInt(SubSeq(s, 1, c1 - 1)) * 3600 * Scale
    + ParseInt(SubSeq(s, c1 + 1, c2 - 1)) * 60 * Scale
    + SecondsVal(SubSeq(s, c2 + 1, Len(s)))

\* ^(\d+):([0-5]\d)(?:\.(\d+))?$ for a string s with exactly one colon, at c1
IsMinutesForm(s, c1) ==
  /\ IsDigits(SubSeq(s, 1, c1 - 1))
  /\ IsSeconds(SubSeq(s, c1 + 1, Len(s)))

\* minutes * 60 + seconds + fraction
MinutesFormVal(s, c1) ==
  ParseInt(SubSeq(s, 1, c1 - 1)) * 60 * Scale + SecondsVal(SubSeq(s, c1 + 1, Len(s)))

\* Number.isFinite(n) ? n : NaN
FiniteOrNaN(n) == IF IsFinite(n) THEN n ELSE NaN

\* defaultTimeParser past `const s = input.trim()`, for the trimmed string s
\* whose colons are at the positions colons
ParseTrimmed(s, colons) ==
  IF Cardinality(colons) = 2 /\ IsHoursForm(s, FirstOf(colons), LastOf(colons))
  THEN Fin(HoursFormVal(s, FirstOf(colons), LastOf(colons)))
  ELSE IF Cardinality(colons) = 1 /\ IsMinutesForm(s, FirstOf(colons))
  THEN Fin(MinutesFormVal(s, FirstOf(colons)))
  ELSE IF Len(s) > 0 /\ s[1] = "-" /\ IsDecimal(Tail(s))
  THEN Fin(0 - DecimalVal(Tail(s)))
  ELSE IF IsDecimal(s)
  THEN Fin(DecimalVal(s))
  ELSE FiniteOrNaN(Number(s))

\* the three regular expressions and the fallback, for the trimmed string s
ParseString(s) == ParseTrimmed(s, Positions(s, ":"))

defaultTimeParser(input) ==
  IF input.t = "num" THEN input.n
  ELSE IF input.t # "str" THEN NaN
  ELSE ParseString(Trim(input.s))

\* the parsers of the model: the default one, and the custom parser of
\* test/input.format.errors.test.ts that raises on every input
Parsers == {"default", "throwing"}

\* parser(input): the value returned, or threw = TRUE when the parser raises
ApplyParser(parser, input) ==
  IF parser = "throwing" THEN [threw |-> TRUE, val |-> NaN]
  ELSE [threw |-> FALSE, val |-> defaultTimeParser(input)]

\* typeof raw === 'number' ? raw : parser(raw)
ToNumber(parser, raw) ==
  IF raw.t = "num" THEN [threw |-> FALSE, val |-> raw.n]
  ELSE ApplyParser(parser, raw)

\* the parser calls that evaluating ToNumber(parser, raw) at a site makes
ParserCalls(site, raw) ==
  IF raw.t = "num" THEN <<>> ELSE <<[site |-> site, raw |-> raw]>>

\* ------------------------------------------------------------------------
\* Formatters
\* ------------------------------------------------------------------------
\* n.toString() of a non-negative integer
RECURSIVE IntToString(_)
IntToString(n) ==
  LET d == <<"0", "1", "2", "3", "4", "5", "6", "7", "8", "9">> IN
    IF n < 10 THEN <<d[n + 1]>>
    ELSE Append(IntToString(n \div 10), d[(n % 10) + 1])

\* String(value) of a number that is not finite
NonFiniteToString(x) ==
  IF IsNaN(x) THEN <<"N", "a", "N">>
  ELSE IF x.v > 0 THEN <<"I", "n", "f", "i", "n", "i", "t", "y">>
  ELSE <<"-", "I", "n", "f", "i", "n", "i", "t", "y">>

pad2(n) ==
  LET str == IntToString(n) IN IF Len(str) < 2 THEN <<"0">> \o str ELSE str

defaultFormatAbsolute(value) ==
  IF ~IsFinite(value) THEN NonFiniteToString(value)
  ELSE
    LET sign == IF value.v < 0 THEN <<"-">> ELSE <<>>
        v == IF value.v < 0 THEN 0 - value.v ELSE value.v
        hours == v \div (3600 * Scale)
        minutes == (v % (3600 * Scale)) \div (60 * Scale)
        seconds == (v % (60 * Scale)) \div Scale
        hundredths == (((v % Scale) * 100 * 2) + Scale) \div (2 * Scale)
    IN
      IF hours > 0
      THEN sign \o IntToString(hours) \o <<":">> \o pad2(minutes) \o <<":">>
             \o pad2(seconds) \o <<".">> \o pad2(hundredths)
      ELSE IF minutes > 0
      THEN sign \o IntToString(minutes) \o <<":">> \o pad2(seconds)
             \o <<".">> \o pad2(hundredths)
      ELSE sign \o pad2(seconds) \o <<".">> \o pad2(hundredths)

\* a non-negative finite ratio num / den, den > 0
Ratio(num, den) == [num |-> num, den |-> den]

\* percent.toFixed(1) + '%' of a non-negative finite ratio
defaultFormatRelative(percent) ==
  LET whole == percent.num \div percent.den
      rest == percent.num % percent.den
      tenths == whole * 10 + (rest * 10 * 2 + percent.den) \div (2 * percent.den)
  IN
    IntToString(tenths \div 10) \o <<".">> \o IntToString(tenths % 10) \o <<"%">>

\* ------------------------------------------------------------------------
\* computePerformance
\* ------------------------------------------------------------------------
\* a diagnostic of validation.errors: its kind (the fixed text of the
\* message) and the labels the message names
Err(kind, a, b) == [kind |-> kind, a |-> a, b |-> b]

\* an optional value: <<>> is null / absent, <<x>> is x
Null == <<>>
Some(x) == <<x>>

\* isMatchNum with exclusive bounds
isMatchNumExclusive(metric, cutNum, direction) ==
  IF IsNaN(cutNum) THEN FALSE
  ELSE IF direction = "higher" THEN Gt(metric, cutNum)
  ELSE Lt(metric, cutNum)

\* isMatchNum that asks for the metric to equal the cut
isMatchNumExact(metric, cutNum, direction) == NumEq(metric, cutNum)

isMatchNum(metric, cutNum, direction) ==
  IF IsNaN(cutNum) THEN FALSE
  ELSE IF direction = "higher" THEN Ge(metric, cutNum)
  ELSE Le(metric, cutNum)

\* the positions of the standards that carry a label
LabelPositions(standards, label) ==
  {i \in 1..Len(standards) : standards[i].label = label}

\* the Map built by "for (const s of standards) labelToStd.set(s.label, s)",
\* read at a label: the position of the standard the label maps to, 0 when
\* the Map has no such key (a later set overwrites an earlier one)
labelToStd(standards, label) ==
  IF LabelPositions(standards, label) = {} THEN 0
  ELSE LastOf(LabelPositions(standards, label))

\* what a phase of the call hands on: the diagnostics pushed so far, the
\* parser calls made so far, and whether the last of them raised
Phase(errors, calls, threw) == [errors |-> errors, calls |-> calls, threw |-> threw]

\* what the loop of the auto inference hands on
Inference(canInfer, cuts, calls, threw) ==
  [canInfer |-> canInfer, cuts |-> cuts, calls |-> calls, threw |-> threw]

RECURSIVE InferCuts(_, _, _, _, _, _)

\* the loop body of the auto inference once the cut of level i is parsed
InferParsed(standards, levels, parser, i, cuts, calls, parsed) ==
  IF parsed.threw THEN Inference(FALSE, cuts, calls, TRUE)
  ELSE IF IsNaN(parsed.val) THEN Inference(FALSE, cuts, calls, FALSE)
  ELSE InferCuts(standards, levels, parser, i + 1, Append(cuts, parsed.val), calls)

\* the loop body of the auto inference for level i, which names the standard
\* at position at (0: none)
InferLevel(standards, levels, parser, i, cuts, calls, at) ==
  IF at = 0 THEN Inference(FALSE, cuts, calls, FALSE)
  ELSE IF standards[at].cut.t = "undefined" THEN Inference(FALSE, cuts, calls, FALSE)
  ELSE InferParsed(standards, levels, parser, i, cuts,
                   calls \o ParserCalls("infer", standards[at].cut),
                   ToNumber(parser, standards[at].cut))

\* the loop over options.levels of the auto inference, from level i on
InferCuts(standards, levels, parser, i, cuts, calls) ==
  IF i > Len(levels) THEN Inference(TRUE, cuts, calls, FALSE)
  ELSE InferLevel(standards, levels, parser, i, cuts, calls,
                  labelToStd(standards, levels[i]))

\* what "Determine direction" hands on
Resolved(direction, errors, calls, threw) ==
  [direction |-> direction, errors |-> errors, calls |-> calls, threw |-> threw]

\* for (let i = 1; ...) increasing / decreasing
Increasing(cuts) == \A i \in 2..Len(cuts) : Gt(cuts[i], cuts[i - 1])
Decreasing(cuts) == \A i \in 2..Len(cuts) : Lt(cuts[i], cuts[i - 1])

\* ResolveInferred for which fewer than two cuts are in decreasing order
ResolveInferredShort(inf) ==
  IF inf.threw THEN Resolved("lower", <<>>, inf.calls, TRUE)
  ELSE IF ~inf.canInfer
  THEN Resolved("lower",
                <<Err("Auto-direction inference failed: missing/invalid cuts for some levels", "", "")>>,
                inf.calls, FALSE)
  ELSE IF Len(inf.cuts) < 2 THEN Resolved("lower", <<>>, inf.calls, FALSE)
  ELSE IF Increasing(inf.cuts) /\ ~Decreasing(inf.cuts)
  THEN Resolved("higher", <<>>, inf.calls, FALSE)
  ELSE IF Decreasing(inf.cuts) /\ ~Increasing(inf.cuts)
  THEN Resolved("lower", <<>>, inf.calls, FALSE)
  ELSE Resolved("lower",
                <<Err("Auto-direction inference failed: levels cuts are not monotonic", "", "")>>,
                inf.calls, FALSE)

\* ResolveInferred for which equal neighbours count as increasing
ResolveInferredLoose(inf) ==
  IF inf.threw THEN Resolved("lower", <<>>, inf.calls, TRUE)
  ELSE IF ~inf.canInfer
  THEN Resolved("lower",
                <<Err("Auto-direction inference failed: missing/invalid cuts for some levels", "", "")>>,
                inf.calls, FALSE)
  ELSE IF \A i \in 2..Len(inf.cuts) : Ge(inf.cuts[i], inf.cuts[i - 1])
  THEN Resolved("higher", <<>>, inf.calls, FALSE)
  ELSE IF Decreasing(inf.cuts) THEN Resolved("lower", <<>>, inf.calls, FALSE)
  ELSE Resolved("lower",
                <<Err("Auto-direction inference failed: levels cuts are not monotonic", "", "")>>,
                inf.calls, FALSE)

\* the auto inference after its loop over the levels
ResolveInferred(inf) ==
  IF inf.threw THEN Resolved("lower", <<>>, inf.calls, TRUE)
  ELSE IF ~inf.canInfer
  THEN Resolved("lower",
                <<Err("Auto-direction inference failed: missing/invalid cuts for some levels", "", "")>>,
                inf.calls, FALSE)
  ELSE IF Increasing(inf.cuts) /\ ~Decreasing(inf.cuts)
  THEN Resolved("higher", <<>>, inf.calls, FALSE)
  ELSE IF Decreasing(inf.cuts) /\ ~Increasing(inf.cuts)
  THEN Resolved("lower", <<>>, inf.calls, FALSE)
  ELSE Resolved("lower",
                <<Err("Auto-direction inference failed: levels cuts are not monotonic", "", "")>>,
                inf.calls, FALSE)

\* "Determine direction": the resolved direction, the diagnostics pushed,
\* the parser calls made, and whether one of them raised
ResolveDirection(standards, options) ==
  IF options.direction = "higher" THEN Resolved("higher", <<>>, <<>>, FALSE)
  ELSE IF options.direction = "lower" THEN Resolved("lower", <<>>, <<>>, FALSE)
  ELSE IF options.direction # "auto" THEN Resolved("lower", <<>>, <<>>, FALSE)
  ELSE IF options.hasLevels
  THEN ResolveInferred(InferCuts(standards, options.levels, options.parser, 1, <<>>, <<>>))
  ELSE Resolved("lower", <<Err("Auto-direction inference requires levels", "", "")>>,
                <<>>, FALSE)

\* the diagnostics of the loop that fills labelToStd in "Validate levels",
\* from standard i on
RECURSIVE DuplicateErrors(_, _)
DuplicateErrors(standards, i) ==
  IF i > Len(standards) THEN <<>>
  ELSE (IF \E j \in 1..(i - 1) : standards[j].label = standards[i].label
        THEN <<Err("Duplicate standard label", standards[i].label, "")>>
        ELSE <<>>)
       \o DuplicateErrors(standards, i + 1)

\* the diagnostics of the loop over levels that looks each label up, from
\* level i on
RECURSIVE MissingErrors(_, _, _)
MissingErrors(standards, levels, i) ==
  IF i > Len(levels) THEN <<>>
  ELSE (IF labelToStd(standards, levels[i]) = 0
        THEN <<Err("Level is declared in options.levels but missing from standards", levels[i], "")>>
        ELSE <<>>)
       \o MissingErrors(standards, levels, i + 1)

\* the pairs <<i, j>>, i < j <= n, from <<i, j>> on, in the order the nested
\* loops visit them
RECURSIVE PairsFrom(_, _, _)
PairsFrom(i, j, n) ==
  IF i >= n THEN <<>>
  ELSE IF j > n THEN PairsFrom(i + 1, i + 2, n)
  ELSE <<(<<i, j>>)>> \o PairsFrom(i, j + 1, n)

LevelPairs(n) == PairsFrom(1, 2, n)

RECURSIVE OrderingLoop(_, _, _, _, _, _, _, _)

\* OrderingErrors for which equal cuts are in order
OrderingErrorsLoose(direction, lowLabel, highLabel, lowCut, highCut) ==
  IF IsNaN(lowCut) \/ IsNaN(highCut)
  THEN <<Err("Unable to parse cuts for levels", lowLabel, highLabel)>>
  ELSE IF direction = "lower" /\ Lt(lowCut, highCut)
  THEN <<Err("Ordering violation", lowLabel, highLabel)>>
  ELSE IF direction # "lower" /\ Gt(lowCut, highCut)
  THEN <<Err("Ordering violation", lowLabel, highLabel)>>
  ELSE <<>>

\* the diagnostics a pair of parsed cuts adds
OrderingErrors(direction, lowLabel, highLabel, lowCut, highCut) ==
  IF IsNaN(lowCut) \/ IsNaN(highCut)
  THEN <<Err("Unable to parse cuts for levels", lowLabel, highLabel)>>
  ELSE IF direction = "lower" /\ ~Gt(lowCut, highCut)
  THEN <<Err("Ordering violation", lowLabel, highLabel)>>
  ELSE IF direction # "lower" /\ ~Lt(lowCut, highCut)
  THEN <<Err("Ordering violation", lowLabel, highLabel)>>
  ELSE <<>>

\* the loop body for pair k once both cuts are parsed
OrderingParsed(standards, levels, parser, direction, pairs, k, errors, calls, lowCut, highCut) ==
  IF lowCut.threw \/ highCut.threw THEN Phase(errors, calls, TRUE)
  ELSE OrderingLoop(standards, levels, parser, direction, pairs, k + 1,
                    errors \o OrderingErrors(direction, levels[pairs[k][1]],
                                             levels[pairs[k][2]], lowCut.val, highCut.val),
                    calls)

\* the loop body for pair k, whose labels name the standards at lowStd and
\* highStd (0: none); a parser that raises on the low cut is not applied to
\* the high cut
OrderingPair(standards, levels, parser, direction, pairs, k, errors, calls, lowStd, highStd) ==
  IF lowStd = 0 \/ highStd = 0
  THEN OrderingLoop(standards, levels, parser, direction, pairs, k + 1, errors, calls)
  ELSE OrderingParsed(standards, levels, parser, direction, pairs, k, errors,
                      calls \o ParserCalls("levels", standards[lowStd].cut)
                            \o (IF ToNumber(parser, standards[lowStd].cut).threw THEN <<>>
                                ELSE ParserCalls("levels", standards[highStd].cut)),
                      ToNumber(parser, standards[lowStd].cut),
                      ToNumber(parser, standards[highStd].cut))

\* the nested loops of "enforce ordering" for the pairs from position k of
\* pairs on
OrderingLoop(standards, levels, parser, direction, pairs, k, errors, calls) ==
  IF k > Len(pairs) THEN Phase(errors, calls, FALSE)
  ELSE OrderingPair(standards, levels, parser, direction, pairs, k, errors, calls,
                    labelToStd(standards, levels[pairs[k][1]]),
                    labelToStd(standards, levels[pairs[k][2]]))

\* "Validate levels (non-throwing)": the diagnostics pushed, the parser
\* calls made, and whether one of them raised
ValidateLevels(standards, options, direction) ==
  IF ~options.hasLevels THEN Phase(<<>>, <<>>, FALSE)
  ELSE OrderingLoop(standards, options.levels, options.parser, direction,
                    LevelPairs(Len(options.levels)), 1,
                    DuplicateErrors(standards, 1) \o MissingErrors(standards, options.levels, 1),
                    <<>>)

\* an entry whose idx is the position counted from 1
EntryFromOne(i, std, cutNum) == [idx |-> i, std |-> std, cutNum |-> cutNum]

\* the entry { idx: i, std: s, cutNum } of the i-th standard (i from 1 here,
\* idx from 0 as in the code)
Entry(i, std, cutNum) == [idx |-> i - 1, std |-> std, cutNum |-> cutNum]

\* what the loop that fills numericStandards hands on
Parsed(numericStandards, errors, calls, threw) ==
  [numericStandards |-> numericStandards, errors |-> errors, calls |-> calls,
   threw |-> threw]

RECURSIVE ParseCuts(_, _, _, _, _, _)

\* ParseCut that reports no cut
ParseCutSilent(standards, parser, i, numericStandards, errors, calls, cutNum) ==
  IF cutNum.threw THEN Parsed(numericStandards, errors, calls, TRUE)
  ELSE ParseCuts(standards, parser, i + 1,
                 Append(numericStandards, Entry(i, standards[i], cutNum.val)),
                 errors, calls)

\* the loop body for standard i once its cut is parsed
ParseCut(standards, parser, i, numericStandards, errors, calls, cutNum) ==
  IF cutNum.threw THEN Parsed(numericStandards, errors, calls, TRUE)
  ELSE ParseCuts(standards, parser, i + 1,
                 Append(numericStandards, Entry(i, standards[i], cutNum.val)),
                 IF IsNaN(cutNum.val)
                 THEN Append(errors, Err("Unable to parse cut value for standard",
                                         standards[i].label, ""))
                 ELSE errors,
                 calls)

\* the loop that fills numericStandards (idx is the position in the
\* caller's list), from standard i on
ParseCuts(standards, parser, i, numericStandards, errors, calls) ==
  IF i > Len(standards) THEN Parsed(numericStandards, errors, calls, FALSE)
  ELSE ParseCut(standards, parser, i, numericStandards, errors,
                calls \o ParserCalls("cut", standards[i].cut),
                ToNumber(parser, standards[i].cut))

\* Keeps whose filters for the next standard let an equal cut through
KeepsInclusive(e, what, ref, direction) ==
  CASE what = "matches" ->
         ~IsNaN(e.cutNum) /\ ~IsNaN(ref) /\ isMatchNum(ref, e.cutNum, direction)
    [] what = "above" -> IsFinite(e.cutNum) /\ Ge(e.cutNum, ref)
    [] what = "below" -> IsFinite(e.cutNum) /\ Le(e.cutNum, ref)

\* the callbacks of the three filters of computePerformance
Keeps(e, what, ref, direction) ==
  CASE what = "matches" ->
         ~IsNaN(e.cutNum) /\ ~IsNaN(ref) /\ isMatchNum(ref, e.cutNum, direction)
    [] what = "above" -> IsFinite(e.cutNum) /\ Gt(e.cutNum, ref)
    [] what = "below" -> IsFinite(e.cutNum) /\ Lt(e.cutNum, ref)

\* entries.filter(callback)
RECURSIVE Filter(_, _, _, _)
Filter(entries, what, ref, direction) ==
  IF Len(entries) = 0 THEN <<>>
  ELSE (IF Keeps(Head(entries), what, ref, direction) THEN <<Head(entries)>> ELSE <<>>)
       \o Filter(Tail(entries), what, ref, direction)

\* the comparator (a, b) => a.cutNum - b.cutNum (ascending) or
\* (a, b) => b.cutNum - a.cutNum (descending) puts a after b
After(a, b, order) ==
  IF order = "ascending" THEN Gt(Sub(a.cutNum, b.cutNum), Zero)
  ELSE Gt(Sub(b.cutNum, a.cutNum), Zero)

\* Insert that puts e before the entries it compares equal to
InsertBeforeEqual(sorted, e, order) ==
  IF \A i \in 1..Len(sorted) : After(e, sorted[i], order) THEN Append(sorted, e)
  ELSE SubSeq(sorted, 1, FirstOf({i \in 1..Len(sorted) : ~After(e, sorted[i], order)}) - 1)
       \o <<e>>
       \o SubSeq(sorted, FirstOf({i \in 1..Len(sorted) : ~After(e, sorted[i], order)}),
                 Len(sorted))

\* e put into the sorted entries before the first entry that goes after it
Insert(sorted, e, order) ==
  IF \A i \in 1..Len(sorted) : ~After(sorted[i], e, order) THEN Append(sorted, e)
  ELSE SubSeq(sorted, 1, FirstOf({i \in 1..Len(sorted) : After(sorted[i], e, order)}) - 1)
       \o <<e>>
       \o SubSeq(sorted, FirstOf({i \in 1..Len(sorted) : After(sorted[i], e, order)}),
                 Len(sorted))

\* Array.prototype.sort with one of the two comparators: a stable sort (a
\* comparator result of NaN counts as 0)
RECURSIVE Sort(_, _)
Sort(entries, order) ==
  IF Len(entries) = 0 THEN <<>>
  ELSE Insert(Sort(SubSeq(entries, 1, Len(entries) - 1), order),
              entries[Len(entries)], order)

\* NextCandidates with the candidates in the opposite order: the farthest
\* better cut first
NextCandidatesFarthest(numericStandards, ref, direction) ==
  IF direction = "higher"
  THEN Sort(Filter(numericStandards, "above", ref, direction), "descending")
  ELSE Sort(Filter(numericStandards, "below", ref, direction), "ascending")

\* the candidates for the next better standard of a reference value
NextCandidates(numericStandards, ref, direction) ==
  IF direction = "higher"
  THEN Sort(Filter(numericStandards, "above", ref, direction), "ascending")
  ELSE Sort(Filter(numericStandards, "below", ref, direction), "descending")

\* candidates.length > 0 ? candidates[0] : null
FirstOrNull(candidates) == IF Len(candidates) > 0 THEN Some(candidates[1]) ELSE Null

\* CanDiff that only rules out NaN
CanDiffNotNaN(metricNum, nextCutNum) == ~IsNaN(nextCutNum) /\ ~IsNaN(metricNum)

\* the guard of the diff computation: Number.isFinite of both operands
CanDiff(metricNum, nextCutNum) == IsFinite(nextCutNum) /\ IsFinite(metricNum)

\* abs: the directional difference clamped at zero
AbsoluteDiff(metricNum, nextCutNum, direction) ==
  IF direction = "higher" THEN MathMax0(Sub(nextCutNum, metricNum))
  ELSE MathMax0(Sub(metricNum, nextCutNum))

\* denom = Math.abs(x) > 0 ? Math.abs(x) : 1
Denominator(x) == IF Gt(MathAbs(x), Zero) THEN MathAbs(x) ELSE Whole(1)

\* Diff with the relative difference taken over the metric
DiffOverMetric(metricNum, nextCutNum, direction) ==
  [absolute |-> AbsoluteDiff(metricNum, nextCutNum, direction),
   relative |-> Ratio(AbsoluteDiff(metricNum, nextCutNum, direction).v * 100,
                      Denominator(metricNum).v)]

\* { absolute: abs, relative: rel } of a finite metric and a finite next cut
Diff(metricNum, nextCutNum, direction) ==
  [absolute |-> AbsoluteDiff(metricNum, nextCutNum, direction),
   relative |-> Ratio(AbsoluteDiff(metricNum, nextCutNum, direction).v * 100,
                      Denominator(nextCutNum).v)]

\* { absolute: formatAbsolute(...), relative: formatRelative(...) }
Formatted(diff) ==
  [absolute |-> defaultFormatAbsolute(diff.absolute),
   relative |-> defaultFormatRelative(diff.relative)]

\* FormatDiff that formats a missing diff as a diff of zero
FormatDiffAlways(diff) ==
  IF diff = Null
  THEN Some(Formatted([absolute |-> Zero, relative |-> Ratio(0, 1)]))
  ELSE Some(Formatted(diff[1]))

\* diffToNextFormatted of a diffToNext
FormatDiff(diff) == IF diff = Null THEN Null ELSE Some(Formatted(diff[1]))

\* buildNextCutObject of a numericStandards entry
buildNextCutObject(e) ==
  [label |-> e.std.label,
   cut |-> IF e.std.cut.t = "str" THEN e.std.cut.s
           ELSE IF IsFinite(e.cutNum) THEN defaultFormatAbsolute(e.cutNum)
           ELSE NonFiniteToString(e.cutNum)]

\* the shape shared by everything a call can end in
Outcome(outcome, label, index, standard, next, nextCut, diff, formatted, valid, errors, calls) ==
  [outcome |-> outcome, label |-> label, index |-> index, standard |-> standard,
   nextStandard |-> next, nextCut |-> nextCut, diffToNext |-> diff,
   diffToNextFormatted |-> formatted,
   validation |-> [valid |-> valid, errors |-> errors], calls |-> calls,
   raisedBy |-> "", message |-> <<>>]

\* no call has ended yet
NoResult ==
  Outcome("none", "", 0 - 1, Null, Null, Null, Null, Null, TRUE, <<>>, <<>>)

\* a piece of literal text of an error message, held like a diagnostic
Text(str) == Err(str, "", "")

\* errors.join('; '): the diagnostics with a separator between neighbours
RECURSIVE Join(_)
Join(errors) ==
  IF Len(errors) <= 1 THEN errors
  ELSE <<errors[1], Text("; ")>> \o Join(Tail(errors))

\* ErrorMessage that joins nothing: the prefix and the first diagnostic
ErrorMessageFirst(errors) == <<Text("Validation errors: "), errors[1]>>

\* 'Validation errors: ' + errors.join('; '), as the sequence of its pieces
ErrorMessage(errors) == <<Text("Validation errors: ")>> \o Join(errors)

\* the call raised: "validation" is the error of validationMode 'throw',
\* whose message is made of the diagnostics; "parser" is an error raised by
\* the parser, with the parser's message
Raised(why, errors, calls) ==
  [Outcome("raised", "", 0 - 1, Null, Null, Null, Null, Null, FALSE, errors, calls)
     EXCEPT !.raisedBy = why,
            !.message = IF why = "validation" THEN ErrorMessage(errors)
                        ELSE <<Text("boom parser")>>]

\* Valid that does not look at the diagnostics
ValidAlways(errors) == TRUE

\* valid: errors.length === 0
Valid(errors) == Len(errors) = 0

\* a returned result: label, index and standard as given, the next entry
\* (or Null) with its nextCut object, the diff (or Null) with its formatted
\* form, and validation.valid = (errors.length === 0)
Return(label, index, standard, next, diff, errors, calls) ==
  Outcome("returned", label, index, standard,
          IF next = Null THEN Null ELSE Some(next[1].std),
          IF next = Null THEN Null ELSE Some(buildNextCutObject(next[1])),
          diff, FormatDiff(diff), Valid(errors), errors,
          calls \o (IF next = Null THEN <<>> ELSE ParserCalls("nextCut", next[1].std.cut)))

\* NoMatch that suggests no next standard
NoMatchNoNext(metricNum, numericStandards, direction, errors, calls) ==
  Return("unknown", 0 - 1, Null, Null, Null, errors, calls)

\* the no-match branch once nextBest is chosen
NoMatchNext(metricNum, direction, errors, calls, nextBest) ==
  IF nextBest = Null \/ ~IsFinite(metricNum)
  THEN Return("unknown", 0 - 1, Null, nextBest, Null, errors, calls)
  ELSE IF CanDiff(metricNum, nextBest[1].cutNum)
  THEN Return("unknown", 0 - 1, Null, nextBest,
              Some(Diff(metricNum, nextBest[1].cutNum, direction)), errors, calls)
  ELSE Return("unknown", 0 - 1, Null, nextBest, Null,
              Append(errors, Err("Unable to parse cut value for next standard", "", "")),
              calls)

\* the branch "if (matches.length === 0)"
NoMatch(metricNum, numericStandards, direction, errors, calls) ==
  NoMatchNext(metricNum, direction, errors, calls,
              IF IsFinite(metricNum)
              THEN FirstOrNull(NextCandidates(numericStandards, metricNum, direction))
              ELSE Null)

\* "Compute diff" to the final return, for the best match and the next
\* better entry
MatchedNext(metricNum, direction, errors, calls, bestMatch, next) ==
  IF next = Null
  THEN Return(bestMatch.std.label, bestMatch.idx, Some(bestMatch.std), next, Null,
              errors, calls)
  ELSE IF CanDiff(metricNum, next[1].cutNum)
  THEN Return(bestMatch.std.label, bestMatch.idx, Some(bestMatch.std), next,
              Some(Diff(metricNum, next[1].cutNum, direction)), errors, calls)
  ELSE Return(bestMatch.std.label, bestMatch.idx, Some(bestMatch.std), next, Null,
              Append(errors, Err("Unable to compute diff: next standard cut could not be parsed", "", "")),
              calls)

\* "Find next better" for the best match
MatchedBest(metricNum, numericStandards, direction, errors, calls, bestMatch) ==
  MatchedNext(metricNum, direction, errors, calls, bestMatch,
              FirstOrNull(NextCandidates(numericStandards, bestMatch.cutNum, direction)))

\* "Select best match" to the final return
Matched(metricNum, numericStandards, matches, direction, errors, calls) ==
  MatchedBest(metricNum, numericStandards, direction, errors, calls,
              Sort(matches, IF direction = "higher" THEN "descending" ELSE "ascending")[1])

\* "Find matches"
Matches(metricNum, numericStandards, direction) ==
  Filter(numericStandards, "matches", metricNum, direction)

\* "if (matches.length === 0)" and what follows it
Select(metricNum, numericStandards, matches, direction, errors, calls) ==
  IF Len(matches) = 0 THEN NoMatch(metricNum, numericStandards, direction, errors, calls)
  ELSE Matched(metricNum, numericStandards, matches, direction, errors, calls)

\* "Find matches" and what follows it, for the parsed metric and cuts
MatchParsed(metricNum, direction, parsed) ==
  IF parsed.threw THEN Raised("parser", parsed.errors, parsed.calls)
  ELSE Select(metricNum, parsed.numericStandards,
              Matches(metricNum, parsed.numericStandards, direction),
              direction, parsed.errors, parsed.calls)

\* ParseStandards that does not report the metric
ParseStandardsSilent(standards, options, direction, errors, calls, metricNum) ==
  IF metricNum.threw THEN Raised("parser", errors, calls)
  ELSE MatchParsed(metricNum.val, direction,
                   ParseCuts(standards, options.parser, 1, <<>>, errors, calls))

\* the loop that fills numericStandards and what follows it, for the parsed
\* metric
ParseStandards(standards, options, direction, errors, calls, metricNum) ==
  IF metricNum.threw THEN Raised("parser", errors, calls)
  ELSE MatchParsed(metricNum.val, direction,
                   ParseCuts(standards, options.parser, 1, <<>>,
                             IF IsNaN(metricNum.val)
                             THEN Append(errors, Err("Unable to parse metric into a numeric value", "", ""))
                             ELSE errors,
                             calls))

\* from "Parse metric and standards into numeric values" to the return
ParseAndMatch(metric, standards, options, direction, errors, calls) ==
  ParseStandards(standards, options, direction, errors,
                 calls \o ParserCalls("metric", metric),
                 ToNumber(options.parser, metric))

\* ThrowsNow that lets a single diagnostic pass
ThrowsNowSecond(options, errors) == options.validationMode = "throw" /\ Len(errors) > 1

\* ThrowsNow that does not look at the validation mode
ThrowsOnErrors(options, errors) == Len(errors) > 0

\* the check "validationMode === 'throw' && errors.length > 0"
ThrowsNow(options, errors) == options.validationMode = "throw" /\ Len(errors) > 0

\* the throw check and what follows it, for the diagnostics and the parser
\* calls of direction resolution and levels validation
CheckAndMatch(metric, standards, options, direction, errors, calls) ==
  IF ThrowsNow(options, errors) THEN Raised("validation", errors, calls)
  ELSE ParseAndMatch(metric, standards, options, direction, errors, calls)

\* "Validate levels" done: its outcome val after that of direction
\* resolution, dir
Validated(metric, standards, options, dir, val) ==
  IF val.threw THEN Raised("parser", dir.errors \o val.errors, dir.calls \o val.calls)
  ELSE CheckAndMatch(metric, standards, options, dir.direction,
                     dir.errors \o val.errors, dir.calls \o val.calls)

\* Directed that validates the levels under 'lower' whatever was resolved
DirectedValidatingLower(metric, standards, options, dir) ==
  IF dir.threw THEN Raised("parser", dir.errors, dir.calls)
  ELSE Validated(metric, standards, options, dir,
                 ValidateLevels(standards, options, "lower"))

\* "Determine direction" done: its outcome dir
Directed(metric, standards, options, dir) ==
  IF dir.threw THEN Raised("parser", dir.errors, dir.calls)
  ELSE Validated(metric, standards, options, dir,
                 ValidateLevels(standards, options, dir.direction))

\* the result of the guard "!Array.isArray(standards) || standards.length
\* === 0"
InvalidStandards ==
  Outcome("returned", "unknown", 0 - 1, Null, Null, Null, Null, Null, FALSE,
          <<Err("standards must be a non-empty array", "", "")>>, <<>>)

\* computePerformance(metric, standards, options); the standards argument is
\* the pair isArray (what Array.isArray says of it) and standards (its
\* elements when it is an array)
computePerformance(metric, isArray, standards, options) ==
  IF ~isArray \/ Len(standards) = 0 THEN InvalidStandards
  ELSE Directed(metric, standards, options, ResolveDirection(standards, options))

\* ------------------------------------------------------------------------
\* transformSwimmingStandards
\* ------------------------------------------------------------------------
\* a mapping is the sequence of its own properties [key, value] in
\* iteration order, the keys distinct

\* Object.keys(mapping)
ObjectKeys(mapping) == [i \in 1..Len(mapping) |-> mapping[i].key]

\* Lookup that reads the property that comes first in the mapping
LookupByPosition(mapping, label) ==
  IF \E i \in 1..Len(mapping) : mapping[i].key = label
  THEN RawStr(mapping[1].value)
  ELSE RawUndefined

\* mapping[label]: the value of the property, undefined when there is none
Lookup(mapping, label) ==
  IF \E i \in 1..Len(mapping) : mapping[i].key = label
  THEN RawStr(mapping[CHOOSE i \in 1..Len(mapping) : mapping[i].key = label].value)
  ELSE RawUndefined

\* labels.map((label) => ({ label, cut: mapping[label] }))
MapLabels(mapping, labels) ==
  [i \in 1..Len(labels) |-> [label |-> labels[i], cut |-> Lookup(mapping, labels[i])]]

\* transformSwimmingStandards(mapping, levelsOrder); levelsOrder is Null
\* when the argument is omitted
transformSwimmingStandards(mapping, levelsOrder) ==
  IF levelsOrder # Null /\ Len(levelsOrder[1]) > 0 THEN MapLabels(mapping, levelsOrder[1])
  ELSE MapLabels(mapping, ObjectKeys(mapping))

\* ------------------------------------------------------------------------
\* The calls of the model
\* ------------------------------------------------------------------------
VARIABLES
  fn,         \* the function the state calls
  metric,     \* computePerformance: the metric argument
  isArray,    \* computePerformance: whether the standards argument is an array
  standards,  \* computePerformance: the standards argument, in the caller's order
  options,    \* computePerformance: the options argument
  pc,         \* computePerformance: "ready" before the call, "done" after it
  result,     \* computePerformance: what the call ended in
  input,      \* the argument(s) of a call of one of the other functions
  output      \* Null before that call, Some(what it returned) after it

vars == <<fn, metric, isArray, standards, options, pc, result, input, output>>

Str5 == <<"5">>
Str7 == <<"7">>
StrBad == <<"x">>

\* the cuts of the inputs
Cuts ==
  {RawNum(Whole(0)), RawNum(Whole(10)), RawNum(PosInf), RawStr(Str5), RawStr(StrBad)}

\* the cuts of the inputs that carry a levels schema
SchemaCuts == {RawNum(Whole(0)), RawNum(Whole(10)), RawStr(StrBad)}

\* the metrics of the inputs
Metrics ==
  {RawNum(Whole(0 - 1)), RawNum(Whole(5)), RawNum(Whole(10)), RawNum(PosInf),
   RawStr(Str7), RawStr(StrBad)}

\* the metrics of the inputs that carry a levels schema
SchemaMetrics == {RawNum(Whole(5)), RawStr(StrBad)}

Labels == {"A", "B"}

\* the label of the i-th standard of a matching input
LabelAt(i) == <<"A", "B", "C", "D", "E", "F">>[i]

Standard(label, cut) == [label |-> label, cut |-> cut]

\* sequences over S of length at most n
SeqUpTo(S, n) == UNION {[1..k -> S] : k \in 0..n}

Options(direction, hasLevels, levels, parser, validationMode) ==
  [direction |-> direction, hasLevels |-> hasLevels, levels |-> levels,
   parser |-> parser, validationMode |-> validationMode]

\* inputs for matching: up to MaxStandards standards with distinct labels and
\* any cuts, an explicit or absent direction, no levels
MatchingStandards ==
  {[i \in 1..Len(cs) |-> Standard(LabelAt(i), cs[i])] : cs \in SeqUpTo(Cuts, MaxStandards)}

MatchingOptions ==
  {Options(d, FALSE, <<>>, p, m) :
     d \in {"undefined", "higher", "lower"}, p \in Parsers, m \in {"warn", "throw"}}

\* inputs for the levels schema: up to MaxSchemaStandards standards whose
\* labels may repeat, any direction, levels absent or of at most MaxLevels
SchemaStandards ==
  SeqUpTo({Standard(l, c) : l \in Labels, c \in SchemaCuts}, MaxSchemaStandards)

SchemaOptions ==
  {Options(d, FALSE, <<>>, p, m) :
     d \in {"higher", "lower", "auto"}, p \in Parsers, m \in {"warn", "throw"}}
  \cup
  {Options(d, TRUE, lv, p, m) :
     d \in {"higher", "lower", "auto"}, lv \in SeqUpTo(Labels, MaxLevels),
     p \in Parsers, m \in {"warn", "throw"}}

\* the digit fields of the strings given to the parser; one of them is not
\* a digit string
Fields ==
  {<<>>, <<"5">>, <<"0", "7">>, <<"5", "9">>, <<"6", "0">>, <<"1", "2", "3">>, <<"x">>}

\* the fractional digits of the strings given to the parser
Fractions == {<<>>, <<"5">>, <<"2", "5">>, <<"1", "2", "5">>}

\* a string given to the parser, by its parts: blanks around it or not, a
\* sign or none, one to three fields joined by colons, and a point followed
\* by fractional digits or neither
TimeStrings ==
  {[padded |-> p, sign |-> sg, fields |-> fs, fraction |-> fr] :
     p \in BOOLEAN, sg \in {<<>>, <<"-">>, <<"+">>},
     fs \in {f \in SeqUpTo(Fields, 3) : Len(f) > 0},
     fr \in {Null} \cup {Some(d) : d \in Fractions}}

\* the fields joined by colons
RECURSIVE Joined(_)
Joined(fields) ==
  IF Len(fields) = 1 THEN fields[1]
  ELSE fields[1] \o <<":">> \o Joined(Tail(fields))

\* the string of a member of TimeStrings
Rendered(ts) ==
  (IF ts.padded THEN <<" ">> ELSE <<>>)
    \o ts.sign \o Joined(ts.fields)
    \o (IF ts.fraction = Null THEN <<>> ELSE <<".">> \o ts.fraction[1])
    \o (IF ts.padded THEN <<" ">> ELSE <<>>)

\* the numbers given to the parser
ParserNumbers == {Whole(0), Whole(90), Fin(0 - 15500), NaN, PosInf, NegInf}

\* the numbers given to the absolute formatter: whole and fractional
\* seconds below and above a minute and an hour, of either sign; no value
\* lies halfway between two hundredths
FormatInputs ==
  {Fin(sg * (h * 3600 * Scale + m * 60 * Scale + sec * Scale + ms)) :
     sg \in {0 - 1, 1}, h \in {0, 1, 12}, m \in {0, 1, 59}, sec \in {0, 9, 30, 59},
     ms \in {0, 4, 250, 500, 994, 996, 999}}
  \cup {NaN, PosInf, NegInf}

\* the mappings given to the transformer: properties with distinct keys
Mappings ==
  {m \in SeqUpTo({[key |-> l, value |-> c] : l \in Labels, c \in {Str5, Str7}},
                 Cardinality(Labels)) :
     \A i, j \in 1..Len(m) : i # j => m[i].key # m[j].key}

\* the level orders given to the transformer, Null for none
LevelOrders == {Null} \cup {Some(lv) : lv \in SeqUpTo(Labels, MaxLevels)}

\* the variables of computePerformance in a state that calls another function
NoCall ==
  /\ metric = RawUndefined
  /\ isArray = TRUE
  /\ standards = <<>>
  /\ options = Options("undefined", FALSE, <<>>, "default", "warn")
  /\ pc = "ready"
  /\ result = NoResult

InitPerformance ==
  /\ fn = "computePerformance"
  /\ \/ /\ metric \in Metrics
        /\ \/ isArray = TRUE /\ standards \in MatchingStandards
           \/ isArray = FALSE /\ standards = <<>>
        /\ options \in MatchingOptions
     \/ /\ metric \in SchemaMetrics
        /\ isArray = TRUE
        /\ standards \in SchemaStandards
        /\ options \in SchemaOptions
  /\ pc = "ready"
  /\ result = NoResult
  /\ input = Null
  /\ output = Null

\* the arguments given to the parser: numbers, undefined, and strings, each
\* string with the parts it is written from
ParserInputs ==
  {[raw |-> RawNum(n), parts |-> Null] : n \in ParserNumbers}
    \cup {[raw |-> RawUndefined, parts |-> Null]}
    \cup {[raw |-> RawStr(Rendered(ts)), parts |-> Some(ts)] : ts \in TimeStrings}

InitParser ==
  /\ fn = "defaultTimeParser"
  /\ input \in ParserInputs
  /\ output = Null
  /\ NoCall

InitFormatter ==
  /\ fn = "defaultFormatAbsolute"
  /\ input \in FormatInputs
  /\ output = Null
  /\ NoCall

InitTransformer ==
  /\ fn = "transformSwimmingStandards"
  /\ input \in {[mapping |-> m, levelsOrder |-> lo] : m \in Mappings, lo \in LevelOrders}
  /\ output = Null
  /\ NoCall

Init == InitPerformance \/ InitParser \/ InitFormatter \/ InitTransformer

\* one call computePerformance(metric, standards, options)
Call ==
  /\ fn = "computePerformance"
  /\ pc = "ready"
  /\ pc' = "done"
  /\ result' = computePerformance(metric, isArray, standards, options)
  /\ UNCHANGED <<fn, metric, isArray, standards, options, input, output>>

\* one call defaultTimeParser(input.raw)
Parse ==
  /\ fn = "defaultTimeParser"
  /\ output = Null
  /\ output' = Some(defaultTimeParser(input.raw))
  /\ UNCHANGED <<fn, metric, isArray, standards, options, pc, result, input>>

\* one call defaultFormatAbsolute(input)
Format ==
  /\ fn = "defaultFormatAbsolute"
  /\ output = Null
  /\ output' = Some(defaultFormatAbsolute(input))
  /\ UNCHANGED <<fn, metric, isArray, standards, options, pc, result, input>>

\* one call transformSwimmingStandards(mapping, levelsOrder)
Transform ==
  /\ fn = "transformSwimmingStandards"
  /\ output = Null
  /\ output' = Some(transformSwimmingStandards(input.mapping, input.levelsOrder))
  /\ UNCHANGED <<fn, metric, isArray, standards, options, pc, result, input>>

Next == Call \/ Parse \/ Format \/ Transform

Spec == Init /\ [][Next]_vars

\* ------------------------------------------------------------------------
\* Properties
\* ------------------------------------------------------------------------
\* the call has returned a result
Returned == pc = "done" /\ result.outcome = "returned"

\* the call has raised
HasRaised == pc = "done" /\ result.outcome = "raised"

\* the numeric value of the metric and of the i-th standard's cut
MetricNum == ToNumber(options.parser, metric).val
CutNum(i) == ToNumber(options.parser, standards[i].cut).val

\* the direction is given as 'higher' or 'lower', or not given
DirectionGiven == options.direction # "auto"
GivenDirection == IF options.direction = "higher" THEN "higher" ELSE "lower"

\* the positions of the standards the metric qualifies for under direction d
Qualifying(d) ==
  {i \in 1..Len(standards) :
     /\ ~IsNaN(CutNum(i))
     /\ IF d = "higher" THEN Ge(MetricNum, CutNum(i)) ELSE Le(MetricNum, CutNum(i))}

\* cut a is at least as tight as cut b under direction d
AsTight(a, b, d) == IF d = "higher" THEN Ge(a, b) ELSE Le(a, b)

\* cut a is strictly better than the reference value b under direction d
Better(a, b, d) == IF d = "higher" THEN Gt(a, b) ELSE Lt(a, b)

\* the result is of the matched shape
MatchedShape ==
  /\ result.index \in 0..(Len(standards) - 1)
  /\ result.standard = Some(standards[result.index + 1])
  /\ result.label = standards[result.index + 1].label

\* the result is of the unmatched shape
UnmatchedShape ==
  /\ result.index = 0 - 1
  /\ result.label = "unknown"
  /\ result.standard = Null

\* C1: for a metric that parses to a number, under a given or defaulted
\* direction, a match is reported exactly when some standard has a parseable
\* cut the metric reaches (bounds inclusive), and the matched standard has
\* the tightest of the qualifying cuts.
C1_TightestMatch ==
  (Returned /\ Len(standards) > 0 /\ DirectionGiven /\ ~IsNaN(MetricNum)) =>
    LET Q == Qualifying(GivenDirection) IN
      /\ (result.index >= 0) <=> (Q # {})
      /\ (Q # {}) =>
           /\ (result.index + 1) \in Q
           /\ \A j \in Q : AsTight(CutNum(result.index + 1), CutNum(j), GivenDirection)

\* C1 witness: a metric equal to the cut of the matched standard, which is
\* not the first qualifying standard of the list
C1_Witness ==
  /\ Returned /\ DirectionGiven /\ ~IsNaN(MetricNum)
  /\ result.index >= 1
  /\ NumEq(MetricNum, CutNum(result.index + 1))
  /\ \E j \in Qualifying(GivenDirection) :
       j < result.index + 1 /\ ~NumEq(CutNum(j), CutNum(result.index + 1))

\* C2: every returned result is of exactly one of the two shapes, matched
\* (index a position of the caller's list, standard and label those of the
\* standard at that position) or unmatched (index -1, label 'unknown', no
\* standard).
C2_ResultShape ==
  Returned => (MatchedShape /\ ~UnmatchedShape) \/ (UnmatchedShape /\ ~MatchedShape)

\* C2 witness: a match whose position in the caller's list differs from its
\* position among the matches sorted by tightness
C2_Witness ==
  /\ Returned /\ MatchedShape /\ DirectionGiven
  /\ result.index >= 1
  /\ \A j \in Qualifying(GivenDirection) \ {result.index + 1} :
       ~AsTight(CutNum(j), CutNum(result.index + 1), GivenDirection)
  /\ Cardinality(Qualifying(GivenDirection)) >= 2

\* the resolved direction of a call that has returned: the given one, or
\* the one the auto inference settled on
Direction == ResolveDirection(standards, options).direction

\* the numeric cut of the reported next standard
NextCutNum == ToNumber(options.parser, result.nextStandard[1].cut).val

\* the positions of the standards whose cut is in the set of kinds ks
\* ("fin", "inf") and strictly better than the reference value ref
BetterThan(ref, ks) ==
  {i \in 1..Len(standards) : CutNum(i).k \in ks /\ Better(CutNum(i), ref, Direction)}

\* nextStandard is a standard of B whose cut is the closest of B
ClosestOf(B) ==
  /\ result.nextStandard # Null
  /\ \E i \in B :
       /\ result.nextStandard[1] = standards[i]
       /\ \A j \in B : ~Better(CutNum(i), CutNum(j), Direction)

\* nothing is reported about a next standard
NoNext ==
  /\ result.nextStandard = Null
  /\ result.diffToNext = Null
  /\ result.diffToNextFormatted = Null

\* C3 as stated: the next standard of a match is the closest of the
\* parseable standards (finite or infinite cut) with a strictly better cut
\* than the matched one, and nothing is reported when there is none.
C3_Original ==
  (Returned /\ result.index >= 0) =>
    LET B == BetterThan(CutNum(result.index + 1), {"fin", "inf"}) IN
      IF B = {} THEN NoNext ELSE ClosestOf(B)

\* C3: the next standard of a match is the closest of the standards with a
\* finite cut strictly better than the matched one, and nextStandard,
\* diffToNext and diffToNextFormatted are all null when there is none.
C3_NextOfMatch ==
  (Returned /\ result.index >= 0) =>
    LET B == BetterThan(CutNum(result.index + 1), {"fin"}) IN
      IF B = {} THEN NoNext ELSE ClosestOf(B)

\* C3 witness: a match with two standards of different, strictly better
\* finite cuts, of which the closer is reported
C3_Witness ==
  /\ Returned /\ result.index >= 0
  /\ LET B == BetterThan(CutNum(result.index + 1), {"fin"}) IN
       /\ \E i, j \in B : Better(CutNum(i), CutNum(j), Direction)
       /\ ClosestOf(B)

\* the directional difference from the metric to the reported next cut,
\* clamped at zero, for a finite metric and a finite next cut
Distance ==
  LET d == IF Direction = "higher" THEN NextCutNum.v - MetricNum.v
           ELSE MetricNum.v - NextCutNum.v
  IN IF d > 0 THEN d ELSE 0

C5_DiffValues ==
  (Returned /\ result.diffToNext # Null) =>
    /\ result.nextStandard # Null
    /\ IsFinite(MetricNum)
    /\ IsFinite(NextCutNum)
    /\ LET denom == IF NextCutNum.v > 0 THEN NextCutNum.v
                    ELSE IF NextCutNum.v < 0 THEN 0 - NextCutNum.v
                    ELSE Scale
       IN /\ result.diffToNext[1].absolute = Fin(Distance)
          /\ result.diffToNext[1].relative = Ratio(Distance * 100, denom)

\* C5 witness: a match whose next cut is zero, for a metric strictly inside
\* the matched level (the metric and the matched cut differ)
C5_Witness ==
  /\ Returned /\ result.index >= 0 /\ result.diffToNext # Null
  /\ NextCutNum = Zero
  /\ result.diffToNext[1].absolute.v > 0
  /\ ~NumEq(MetricNum, CutNum(result.index + 1))

\* C6: in every returned result, a null nextStandard comes with a null
\* diffToNext and a null diffToNextFormatted, a present diffToNext comes with
\* a present nextStandard, and diffToNextFormatted is present exactly when
\* diffToNext is.
C6_NullLinks ==
  Returned =>
    /\ (result.nextStandard = Null) =>
         (result.diffToNext = Null /\ result.diffToNextFormatted = Null)
    /\ (result.diffToNext # Null) => (result.nextStandard # Null)
    /\ (result.diffToNextFormatted # Null) <=> (result.diffToNext # Null)

\* C6 witness: a match at the best level, with no next standard
C6_Witness ==
  /\ Returned /\ result.index >= 0
  /\ result.nextStandard = Null
  /\ \E i \in 1..Len(standards) : i # result.index + 1 /\ ~IsNaN(CutNum(i))

\* C7 as stated: diffToNext is present exactly when nextStandard is present
\* and neither the metric nor the next cut is NaN.
C7_Original ==
  Returned =>
    ((result.diffToNext # Null) <=>
       (result.nextStandard # Null /\ ~IsNaN(MetricNum) /\ ~IsNaN(NextCutNum)))

\* C7: diffToNext is present exactly when nextStandard is present and both
\* the metric and the next cut are finite numbers; a next standard reported
\* for an infinite metric comes without diffToNext and with a diagnostic.
C7_DiffPresence ==
  Returned =>
    /\ (result.diffToNext # Null) <=>
         (result.nextStandard # Null /\ IsFinite(MetricNum) /\ IsFinite(NextCutNum))
    /\ (result.nextStandard # Null /\ ~IsFinite(MetricNum)) =>
         (result.diffToNext = Null /\ ~result.validation.valid)

\* C7 witness: a next standard reported for a finite metric that was parsed
\* from a string, with its diffToNext
C7_Witness ==
  /\ Returned /\ result.nextStandard # Null /\ result.diffToNext # Null
  /\ metric.t = "str"
  /\ result.nextStandard[1].cut.t = "str"

\* the parser is applied to the metric or to a cut
ParserNeeded ==
  metric.t # "num" \/ \E i \in 1..Len(standards) : standards[i].cut.t # "num"

\* C8 as stated: in the default validation mode a parser that raises never
\* makes the call raise; the call returns with a 'Parser error' diagnostic
\* and validation.valid false.
C8_ParserErrorsCaught ==
  (pc = "done" /\ options.validationMode = "warn" /\ options.parser = "throwing"
     /\ Len(standards) > 0 /\ ParserNeeded) =>
    /\ result.outcome = "returned"
    /\ ~result.validation.valid
    /\ \E k \in 1..Len(result.validation.errors) :
         result.validation.errors[k].kind = "Parser error"

\* the labels of the standards, and the position of the only standard that
\* carries a label
StandardLabels == {standards[i].label : i \in 1..Len(standards)}
StandardOf(l) == CHOOSE i \in 1..Len(standards) : standards[i].label = l

\* two standards share a label, and levels are supplied
DuplicateLabel ==
  /\ options.hasLevels
  /\ \E i, j \in 1..Len(standards) : i < j /\ standards[i].label = standards[j].label

\* a level names no standard
MissingLevel ==
  /\ options.hasLevels
  /\ \E k \in 1..Len(options.levels) : options.levels[k] \notin StandardLabels

\* the pairs of positions i < j of levels whose labels both name a standard
ResolvedPairs ==
  {p \in (1..Len(options.levels)) \X (1..Len(options.levels)) :
     /\ p[1] < p[2]
     /\ options.levels[p[1]] \in StandardLabels
     /\ options.levels[p[2]] \in StandardLabels}

\* the numeric cut of the standard that level k names
LevelCut(k) == CutNum(StandardOf(options.levels[k]))

\* under a given direction, two levels are out of the strict order
OrderingViolated ==
  /\ options.hasLevels /\ DirectionGiven /\ ~DuplicateLabel
  /\ \E p \in ResolvedPairs :
       /\ ~IsNaN(LevelCut(p[1])) /\ ~IsNaN(LevelCut(p[2]))
       /\ ~Better(LevelCut(p[2]), LevelCut(p[1]), GivenDirection)

\* a level of a pair has a cut that does not parse
UnparsableLevelCut ==
  /\ options.hasLevels /\ ~DuplicateLabel
  /\ \E p \in ResolvedPairs : IsNaN(LevelCut(p[1])) \/ IsNaN(LevelCut(p[2]))

\* the auto inference cannot succeed: no levels, a level without a standard
\* or with an unparsable cut, or cuts of two or more levels that neither
\* increase strictly throughout nor decrease strictly throughout
AutoInferenceFails ==
  /\ options.direction = "auto"
  /\ \/ ~options.hasLevels
     \/ MissingLevel
     \/ /\ ~DuplicateLabel /\ ~MissingLevel
        /\ \E k \in 1..Len(options.levels) : IsNaN(LevelCut(k))
     \/ /\ ~DuplicateLabel /\ ~MissingLevel
        /\ \A k \in 1..Len(options.levels) : ~IsNaN(LevelCut(k))
        /\ \E k \in 2..Len(options.levels) : ~Gt(LevelCut(k), LevelCut(k - 1))
        /\ \E k \in 2..Len(options.levels) : ~Lt(LevelCut(k), LevelCut(k - 1))

\* direction resolution or levels validation has something to report
Diagnosed ==
  \/ DuplicateLabel
  \/ MissingLevel
  \/ OrderingViolated
  \/ UnparsableLevelCut
  \/ AutoInferenceFails

\* the parser was applied to the metric
MetricParsed ==
  \E k \in 1..Len(result.calls) : result.calls[k].site = "metric"

\* C9: with validationMode 'throw', a diagnostic of direction resolution or
\* of levels validation makes the call raise, and it raises before the
\* parser is applied to the metric.
C9_ThrowBeforeParsing ==
  (pc = "done" /\ options.validationMode = "throw" /\ Len(standards) > 0 /\ Diagnosed) =>
    (result.outcome = "raised" /\ ~MetricParsed)

\* C9 witness: an ordering violation raised under 'throw' for a metric given
\* as a string, with a parser that does not raise
C9_Witness ==
  /\ HasRaised /\ result.raisedBy = "validation"
  /\ options.validationMode = "throw" /\ options.parser = "default"
  /\ OrderingViolated
  /\ metric.t = "str"

\* C10 as stated, for a non-empty standards list: with validationMode
\* 'throw' no call returns a result whose validation.valid is false.
C10_ThrowNeverReturnsInvalid ==
  (Returned /\ options.validationMode = "throw" /\ Len(standards) > 0) =>
    result.validation.valid

\* the call of computePerformance has ended, by returning or by raising
Ended == fn = "computePerformance" /\ pc = "done"

\* the standards argument is an empty list or is not a list
NoStandards == ~isArray \/ Len(standards) = 0

\* the diagnostics of the result whose kind is one of kinds
ErrorsOf(kinds) ==
  {k \in 1..Len(result.validation.errors) : result.validation.errors[k].kind \in kinds}

\* C11 as stated: when standards is empty or not a list, the call returns
\* label 'unknown', index -1 and validation.valid false in the default
\* validation mode, and raises with validationMode 'throw'.
C11_EmptyStandards ==
  (Ended /\ NoStandards) =>
    IF options.validationMode = "throw"
    THEN result.outcome = "raised"
    ELSE /\ result.outcome = "returned"
         /\ result.label = "unknown"
         /\ result.index = 0 - 1
         /\ ~result.validation.valid

\* C12: in the default validation mode with the default parser, every call
\* returns: its result carries a validation record, valid or with the
\* diagnostics of what failed.
C12_WarnNeverRaises ==
  (Ended /\ options.validationMode = "warn" /\ options.parser = "default") =>
    /\ result.outcome = "returned"
    /\ result.validation.valid \in BOOLEAN
    /\ ~result.validation.valid => Len(result.validation.errors) > 0

\* C12 witness: a returned result that reports a duplicate label, a metric
\* that does not parse and a cut that does not parse
C12_Witness ==
  /\ Returned /\ options.validationMode = "warn" /\ options.parser = "default"
  /\ ErrorsOf({"Duplicate standard label"}) # {}
  /\ ErrorsOf({"Unable to parse metric into a numeric value"}) # {}
  /\ ErrorsOf({"Unable to parse cut value for standard"}) # {}

\* the position of the standard a label names: the last one that carries it
NamedBy(l) ==
  CHOOSE i \in 1..Len(standards) :
    standards[i].label = l /\ \A j \in (i + 1)..Len(standards) : standards[j].label # l

\* the numeric cut of the standard that level k names
NamedCut(k) == CutNum(NamedBy(options.levels[k]))

\* every level names a standard whose cut parses
LevelsParse ==
  /\ options.hasLevels
  /\ \A k \in 1..Len(options.levels) :
       /\ \E i \in 1..Len(standards) : standards[i].label = options.levels[k]
       /\ standards[NamedBy(options.levels[k])].cut.t # "undefined"
       /\ ~IsNaN(NamedCut(k))

\* the cuts in level order increase strictly throughout
LevelsIncrease ==
  LevelsParse /\ \A k \in 2..Len(options.levels) : Gt(NamedCut(k), NamedCut(k - 1))

\* the cuts in level order decrease strictly throughout
LevelsDecrease ==
  LevelsParse /\ \A k \in 2..Len(options.levels) : Lt(NamedCut(k), NamedCut(k - 1))

\* the direction that 'auto' stands for
InferredDirection == IF LevelsIncrease THEN "higher" ELSE "lower"

\* the diagnostics of the auto inference in the result
AutoDiagnostics ==
  ErrorsOf({"Auto-direction inference requires levels",
            "Auto-direction inference failed: missing/invalid cuts for some levels",
            "Auto-direction inference failed: levels cuts are not monotonic"})

\* direction 'auto' with no levels or with two or more
AutoCase ==
  /\ Returned /\ ~NoStandards
  /\ options.direction = "auto"
  /\ ~options.hasLevels \/ Len(options.levels) >= 2

\* C13: with direction 'auto', and levels absent or of two or more labels,
\* matching uses 'higher' when the cuts of the levels increase strictly
\* throughout and 'lower' otherwise, and an auto-inference diagnostic is
\* reported exactly when the cuts neither increase strictly throughout nor
\* decrease strictly throughout (equal neighbours, no order, a missing
\* label, an unparsable cut, no levels).
C13_AutoDirection ==
  AutoCase =>
    /\ (AutoDiagnostics # {}) <=> ~(LevelsIncrease \/ LevelsDecrease)
    /\ ~IsNaN(MetricNum) =>
         LET Q == Qualifying(InferredDirection) IN
           /\ (result.index >= 0) <=> (Q # {})
           /\ (Q # {}) =>
                /\ (result.index + 1) \in Q
                /\ \A j \in Q :
                     AsTight(CutNum(result.index + 1), CutNum(j), InferredDirection)

\* C13 witness: levels whose cuts increase, and a match that is the
\* tightest under 'higher' while another standard would be under 'lower'
C13_Witness ==
  /\ AutoCase /\ LevelsIncrease
  /\ ~IsNaN(MetricNum)
  /\ result.index >= 0
  /\ \E j \in Qualifying("lower") : j # result.index + 1

\* the standards labelled l whose cut does not parse
Unparsable(l) ==
  {i \in 1..Len(standards) : standards[i].label = l /\ IsNaN(CutNum(i))}

\* the diagnostics 'Unable to parse cut value for standard' that name l
CutDiagnostics(l) ==
  {k \in ErrorsOf({"Unable to parse cut value for standard"}) :
     result.validation.errors[k].a = l}

UnparsedMetricResult ==
  /\ result.outcome = "returned"
  /\ UnmatchedShape
  /\ result.nextStandard = Null
  /\ result.diffToNext = Null
  /\ result.diffToNextFormatted = Null
  /\ ~result.validation.valid
  /\ Cardinality(ErrorsOf({"Unable to parse metric into a numeric value"})) = 1

\* the metric does not parse, in the default validation mode
UnparsedMetric ==
  /\ Ended /\ options.validationMode = "warn" /\ options.parser = "default"
  /\ IsNaN(MetricNum)

\* C15 as stated: a metric that does not parse gives the unmatched result
\* with no next standard, no diff, valid false and exactly one 'Unable to
\* parse metric' diagnostic, whatever the standards are.
C15_Original == UnparsedMetric => UnparsedMetricResult

\* C15: a metric that does not parse gives, for a non-empty standards list,
\* the unmatched result with no next standard, no diff, valid false and
\* exactly one 'Unable to parse metric' diagnostic; for an empty list or a
\* value that is not a list the result is unmatched and invalid too, but
\* the metric is never parsed and the only diagnostic is that of the
\* standards.
C15_UnparsedMetric ==
  UnparsedMetric =>
    IF NoStandards
    THEN /\ result.outcome = "returned" /\ UnmatchedShape /\ ~result.validation.valid
         /\ ErrorsOf({"Unable to parse metric into a numeric value"}) = {}
    ELSE UnparsedMetricResult

\* C15 witness: a metric that does not parse, against standards whose cuts
\* parse, under either direction
C15_Witness ==
  /\ UnparsedMetric /\ ~NoStandards
  /\ metric.t = "str"
  /\ \A i \in 1..Len(standards) : ~IsNaN(CutNum(i))
  /\ Len(standards) >= 2
  /\ options.direction = "higher"

\* C16: in every returned result, validation.valid is true exactly when
\* validation.errors is empty.
C16_ValidIffNoErrors ==
  (Ended /\ result.outcome = "returned") =>
    (result.validation.valid <=> Len(result.validation.errors) = 0)

\* C16 witness: a matched result that is invalid only for a diagnostic
\* added after the levels validation pass
C16_Witness ==
  /\ Returned /\ result.index >= 0
  /\ ~result.validation.valid
  /\ ErrorsOf({"Unable to parse cut value for standard",
               "Unable to compute diff: next standard cut could not be parsed"})
       = 1..Len(result.validation.errors)

\* the absolute formatter has rendered a finite value
FormatDone == fn = "defaultFormatAbsolute" /\ output # Null /\ IsFinite(input)

\* the magnitude of the formatted value rounded to the nearest hundredth,
\* in hundredths
Hundredths ==
  ((IF input.v < 0 THEN 0 - input.v ELSE input.v) + Scale \div 200) \div (Scale \div 100)

\* n < 100 in two digits
TwoDigits(n) == IntToString(n \div 10) \o IntToString(n % 10)

\* H:MM:SS.dd, M:SS.dd or SS.dd of a whole number of hundredths
Rendering(h) ==
  IF h >= 3600 * 100
  THEN IntToString(h \div (3600 * 100)) \o <<":">>
         \o TwoDigits((h % (3600 * 100)) \div (60 * 100)) \o <<":">>
         \o TwoDigits((h % (60 * 100)) \div 100) \o <<".">> \o TwoDigits(h % 100)
  ELSE IF h >= 60 * 100
  THEN IntToString(h \div (60 * 100)) \o <<":">>
         \o TwoDigits((h % (60 * 100)) \div 100) \o <<".">> \o TwoDigits(h % 100)
  ELSE TwoDigits(h \div 100) \o <<".">> \o TwoDigits(h % 100)

\* C17 as stated: the default absolute formatter renders a finite value as
\* H:MM:SS.dd from one hour on, M:SS.dd from one minute on and SS.dd below,
\* with two-digit fields and exactly two fractional digits, and the string
\* denotes the value rounded to the nearest hundredth (a negative value
\* carries a sign).
C17_RendersRounded ==
  FormatDone =>
    output[1] = (IF input.v < 0 THEN <<"-">> ELSE <<>>) \o Rendering(Hundredths)

\* the default parser has returned
ParseDone == fn = "defaultTimeParser" /\ output # Null

\* the parser was given a string
ParsedString == ParseDone /\ input.parts # Null

\* a field of the string is one of two digits, 00 to 59
InRange(f) == Len(f) = 2 /\ IsDigits(f) /\ ParseInt(f) <= 59

\* the value of a string of digits, or of none, in 1/Scale units
FieldVal(f) == IF Len(f) = 0 THEN 0 ELSE ParseInt(f) * Scale

\* the fraction is absent or a point followed by digits
ProperFraction(ts) == ts.fraction = Null \/ IsDigits(ts.fraction[1])

\* the value of the fractional digits (at most three), in 1/Scale units
FractionVal(ts) ==
  IF ts.fraction = Null \/ Len(ts.fraction[1]) = 0 THEN 0
  ELSE ParseInt(ts.fraction[1]) * Pow10(3 - Len(ts.fraction[1]))

\* H:MM:SS[.fff]
HoursForm(ts) ==
  /\ Len(ts.fields) = 3 /\ ts.sign = <<>>
  /\ IsDigits(ts.fields[1]) /\ InRange(ts.fields[2]) /\ InRange(ts.fields[3])
  /\ ProperFraction(ts)

\* M:SS[.fff]
MinutesForm(ts) ==
  /\ Len(ts.fields) = 2 /\ ts.sign = <<>>
  /\ IsDigits(ts.fields[1]) /\ InRange(ts.fields[2])
  /\ ProperFraction(ts)

\* a plain integer or decimal with an optional minus sign
PlainForm(ts) ==
  /\ Len(ts.fields) = 1 /\ ts.sign \in {<<>>, <<"-">>}
  /\ IsDigits(ts.fields[1])
  /\ ProperFraction(ts)

\* what generic numeric coercion makes of a string of none of the three
\* forms: 0 for the empty string, the value of a signed decimal literal
\* with digits before or after the point, NaN for everything else
Coerced(ts) ==
  IF Len(ts.fields) > 1 THEN NaN
  ELSE IF Len(ts.fields[1]) > 0 /\ ~IsDigits(ts.fields[1]) THEN NaN
  ELSE IF ts.fraction = Null /\ Len(ts.fields[1]) = 0
  THEN (IF ts.sign = <<>> THEN Zero ELSE NaN)
  ELSE IF ts.fraction # Null /\ Len(ts.fraction[1]) = 0 /\ Len(ts.fields[1]) = 0 THEN NaN
  ELSE Fin((IF ts.sign = <<"-">> THEN 0 - 1 ELSE 1) * (FieldVal(ts.fields[1]) + FractionVal(ts)))

\* the number a string stands for
Denoted(ts) ==
  IF HoursForm(ts)
  THEN Fin(3600 * FieldVal(ts.fields[1]) + 60 * FieldVal(ts.fields[2])
             + FieldVal(ts.fields[3]) + FractionVal(ts))
  ELSE IF MinutesForm(ts)
  THEN Fin(60 * FieldVal(ts.fields[1]) + FieldVal(ts.fields[2]) + FractionVal(ts))
  ELSE IF PlainForm(ts)
  THEN Fin((IF ts.sign = <<"-">> THEN 0 - 1 ELSE 1) * (FieldVal(ts.fields[1]) + FractionVal(ts)))
  ELSE Coerced(ts)

TransformDone == fn = "transformSwimmingStandards" /\ output # Null

\* an explicit, non-empty level order was given
OrderGiven == input.levelsOrder # Null /\ Len(input.levelsOrder[1]) > 0

\* the cut c is the mapping's value for the label l: the value of the
\* property of that key, undefined when the mapping has none
ValueOf(l, c) ==
  \/ \E j \in 1..Len(input.mapping) :
       input.mapping[j].key = l /\ c = RawStr(input.mapping[j].value)
  \/ /\ \A j \in 1..Len(input.mapping) : input.mapping[j].key # l
     /\ c = RawUndefined

\* C19: with a non-empty level order the transformer returns one standard
\* per level, in that order, labelled by the level and carrying the
\* mapping's value for it; with no order or an empty one it returns one
\* standard per key of the mapping, in iteration order.
C19_Transformer ==
  TransformDone =>
    IF OrderGiven
    THEN /\ Len(output[1]) = Len(input.levelsOrder[1])
         /\ \A i \in 1..Len(output[1]) :
              /\ output[1][i].label = input.levelsOrder[1][i]
              /\ ValueOf(output[1][i].label, output[1][i].cut)
    ELSE /\ Len(output[1]) = Len(input.mapping)
         /\ \A i \in 1..Len(output[1]) :
              /\ output[1][i].label = input.mapping[i].key
              /\ output[1][i].cut = RawStr(input.mapping[i].value)

\* C19 witness: a level order that reverses the iteration order of a
\* mapping of two different cuts, and names a level twice
C19_Witness ==
  /\ TransformDone /\ OrderGiven
  /\ Len(input.mapping) = 2
  /\ input.mapping[1].value # input.mapping[2].value
  /\ Len(input.levelsOrder[1]) = 3
  /\ input.levelsOrder[1][1] = input.mapping[2].key
  /\ input.levelsOrder[1][2] = input.mapping[1].key
  /\ output[1][1].cut = RawStr(input.mapping[2].value)

\* the direction the levels are validated under
ValidatedDirection ==
  IF options.direction # "auto" THEN GivenDirection
  ELSE IF Len(options.levels) >= 2 /\ LevelsIncrease THEN "higher"
  ELSE "lower"

\* levels validation has run and its diagnostics are at hand: the call
\* returned, or raised them
LevelsValidated ==
  /\ Ended /\ ~NoStandards /\ options.hasLevels
  /\ \/ result.outcome = "returned"
     \/ result.outcome = "raised" /\ result.raisedBy = "validation"

\* the pairs of positions i < j of levels that carry the labels a and b,
\* both naming a standard
PairsOf(a, b) ==
  {p \in (1..Len(options.levels)) \X (1..Len(options.levels)) :
     /\ p[1] < p[2]
     /\ options.levels[p[1]] = a /\ options.levels[p[2]] = b
     /\ a \in StandardLabels /\ b \in StandardLabels}

\* a pair has a cut that does not parse
PairUnparsed(p) == IsNaN(NamedCut(p[1])) \/ IsNaN(NamedCut(p[2]))

\* a pair of parsed cuts is out of the strict order of direction d
PairViolates(p, d) ==
  /\ ~PairUnparsed(p)
  /\ IF d = "lower" THEN ~Gt(NamedCut(p[1]), NamedCut(p[2]))
     ELSE ~Lt(NamedCut(p[1]), NamedCut(p[2]))

\* the diagnostics of a kind that name the labels a and b, in that order
PairDiagnostics(kind, a, b) ==
  {k \in ErrorsOf({kind}) :
     result.validation.errors[k].a = a /\ result.validation.errors[k].b = b}

\* C20: levels validation reports every pair of positions i < j of levels
\* whose labels both name a standard, once: as an 'Ordering violation' when
\* both cuts parse and are not in the strict order of the direction (equal
\* cuts are not), as 'Unable to parse cuts' when one of them does not
\* parse, and not at all otherwise; no pair hides another.
C20_OrderingPairs ==
  LevelsValidated =>
    \A a, b \in Labels :
      /\ Cardinality(PairDiagnostics("Ordering violation", a, b))
           = Cardinality({p \in PairsOf(a, b) : PairViolates(p, ValidatedDirection)})
      /\ Cardinality(PairDiagnostics("Unable to parse cuts for levels", a, b))
           = Cardinality({p \in PairsOf(a, b) : PairUnparsed(p)})

\* C20 witness: three levels of which one pair is in order and two are
\* not, one of the two for equal cuts
C20_Witness ==
  /\ LevelsValidated /\ Len(options.levels) = 3
  /\ Cardinality(ErrorsOf({"Ordering violation"})) = 2
  /\ \E a \in Labels : PairDiagnostics("Ordering violation", a, a) # {}
  /\ \E a, b \in Labels :
       /\ PairsOf(a, b) # {}
       /\ \A p \in PairsOf(a, b) : ~PairUnparsed(p) /\ ~PairViolates(p, ValidatedDirection)

\* the position of the first standard that carries the label l
FirstNamed(l) ==
  CHOOSE i \in 1..Len(standards) :
    standards[i].label = l /\ \A j \in 1..(i - 1) : standards[j].label # l

\* the numeric cut of the first standard that level k names
FirstCut(k) == CutNum(FirstNamed(options.levels[k]))

\* the diagnostics 'Duplicate standard label' that name l
DuplicateDiagnostics(l) ==
  {k \in ErrorsOf({"Duplicate standard label"}) : result.validation.errors[k].a = l}

\* k standards with the same label give k - 1 diagnostics
DuplicatesFlagged ==
  \A i \in 1..Len(standards) :
    Cardinality(DuplicateDiagnostics(standards[i].label))
      = Cardinality({j \in 1..Len(standards) : standards[j].label = standards[i].label}) - 1

\* a pair of levels, read at the first standard of each label, has a cut
\* that does not parse
FirstPairUnparsed(p) == IsNaN(FirstCut(p[1])) \/ IsNaN(FirstCut(p[2]))

\* a pair of levels, read at the first standard of each label, is out of
\* the strict order of direction d
FirstPairViolates(p, d) ==
  /\ ~FirstPairUnparsed(p)
  /\ IF d = "lower" THEN ~Gt(FirstCut(p[1]), FirstCut(p[2]))
     ELSE ~Lt(FirstCut(p[1]), FirstCut(p[2]))

\* C21 as stated: with levels supplied, k standards of one label give k - 1
\* 'Duplicate standard label' diagnostics, and the levels logic reads a
\* label at the first standard that carries it: under a given direction the
\* ordering diagnostics of every pair of levels are those of the cuts of
\* the first standards of the two labels.
C21_DuplicatesFirstWins ==
  (LevelsValidated /\ DirectionGiven) =>
    /\ DuplicatesFlagged
    /\ \A a, b \in Labels :
         /\ Cardinality(PairDiagnostics("Ordering violation", a, b))
              = Cardinality({p \in PairsOf(a, b) : FirstPairViolates(p, GivenDirection)})
         /\ Cardinality(PairDiagnostics("Unable to parse cuts for levels", a, b))
              = Cardinality({p \in PairsOf(a, b) : FirstPairUnparsed(p)})

\* the position of the reported next standard: the first standard equal to it
NextIndex == CHOOSE i \in 1..Len(standards) :
  standards[i] = result.nextStandard[1] /\ \A j \in 1..(i - 1) : standards[j] # standards[i]

\* the standards before position i whose cut equals that of the i-th
EarlierTies(i) == {j \in 1..(i - 1) : NumEq(CutNum(j), CutNum(i))}

\* C22: of the standards that share the matched cut the match is the first
\* in the caller's list, and of the standards that share the cut of the
\* next standard the next standard is the first in the caller's list.
C22_TiesFirst ==
  (Returned /\ ~NoStandards) =>
    /\ result.index >= 0 => EarlierTies(result.index + 1) = {}
    /\ result.nextStandard # Null => EarlierTies(NextIndex) = {}

\* C22 witness: a match that shares its cut with a later standard of
\* another label, and a next standard
C22_Witness ==
  /\ Returned /\ result.index >= 0
  /\ \E j \in (result.index + 2)..Len(standards) :
       /\ NumEq(CutNum(j), CutNum(result.index + 1))
       /\ standards[j].label # standards[result.index + 1].label
  /\ result.nextStandard # Null

\* the call raised the error of validationMode 'throw'
RaisedByValidation ==
  Ended /\ result.outcome = "raised" /\ result.raisedBy = "validation"

\* the diagnostics the same call reports with validationMode 'warn', as far
\* as it gets
WarnDiagnostics ==
  computePerformance(metric, isArray, standards,
                     [options EXCEPT !.validationMode = "warn"]).validation.errors

\* where in the order of detection a kind of diagnostic comes
Stage(kind) ==
  CASE kind \in {"Auto-direction inference requires levels",
                 "Auto-direction inference failed: missing/invalid cuts for some levels",
                 "Auto-direction inference failed: levels cuts are not monotonic"} -> 1
    [] kind = "Duplicate standard label" -> 2
    [] kind = "Level is declared in options.levels but missing from standards" -> 3
    [] kind \in {"Ordering violation", "Unable to parse cuts for levels"} -> 4
    [] OTHER -> 5

\* the diagnostics ds are the leading ones of warn, those of the stages
\* before the throw check, in the order of detection
LeadOf(ds, warn) ==
  /\ Len(ds) > 0
  /\ Len(ds) <= Len(warn)
  /\ ds = SubSeq(warn, 1, Len(ds))
  /\ \A k \in 1..Len(ds) : Stage(ds[k].kind) <= 4
  /\ \A k \in 2..Len(ds) : Stage(ds[k - 1].kind) <= Stage(ds[k].kind)
  /\ \A k \in (Len(ds) + 1)..Len(warn) : Stage(warn[k].kind) = 5

\* the diagnostics ds are the ones detected before the throw check, in the
\* order of detection
Detected(ds) == \A warn \in {WarnDiagnostics} : LeadOf(ds, warn)

\* the message is the pieces of lead followed by the diagnostics ds, each
\* once and in order, with '; ' between neighbours
MessageIs(lead, ds) ==
  /\ Len(result.message) = Len(lead) + 2 * Len(ds) - 1
  /\ SubSeq(result.message, 1, Len(lead)) = lead
  /\ \A k \in 1..Len(ds) : result.message[Len(lead) + 2 * k - 1] = ds[k]
  /\ \A k \in 1..(Len(ds) - 1) : result.message[Len(lead) + 2 * k] = Text("; ")

\* C23 as stated: the message of the error raised under validationMode
\* 'throw' is exactly the diagnostics, in the order of detection, joined by
\* '; '.
C23_Original ==
  RaisedByValidation =>
    /\ Detected(result.validation.errors)
    /\ MessageIs(<<>>, result.validation.errors)

\* C23: the message of the error raised under validationMode 'throw' is
\* 'Validation errors: ' followed by the diagnostics, in the order of
\* detection, joined by '; ', every diagnostic once.
C23_ThrowMessage ==
  [](RaisedByValidation =>
       /\ Detected(result.validation.errors)
       /\ MessageIs(<<Text("Validation errors: ")>>, result.validation.errors))

\* C23 witness: an error raised for diagnostics of three stages
C23_Witness ==
  /\ RaisedByValidation
  /\ Len(result.validation.errors) >= 3
  /\ Cardinality({Stage(result.validation.errors[k].kind) :
                    k \in 1..Len(result.validation.errors)}) >= 3

\* C24: a diffToNext is of a metric strictly worse than the cut of the next
\* standard: its absolute value is the distance between the two, strictly
\* greater than zero, which the clamp at zero leaves as it is.
C24_DiffPositive ==
  (Returned /\ result.diffToNext # Null) =>
    /\ Gt(result.diffToNext[1].absolute, Zero)
    /\ Better(NextCutNum, MetricNum, Direction)
    /\ result.diffToNext[1].absolute = MathAbs(Sub(NextCutNum, MetricNum))

\* C24 witness: a diff on the matched branch under 'higher', of more than
\* one unit
C24_Witness ==
  /\ Returned /\ result.diffToNext # Null
  /\ result.index >= 0
  /\ Direction = "higher"
  /\ Gt(result.diffToNext[1].absolute, Whole(1))

\* the result of the same call for the metric m
ResultFor(m) == computePerformance(m, isArray, standards, options)

\* the parser gives the metric m a value, at least as good as the metric of
\* the call
AtLeastAsGood(m) ==
  /\ ~ToNumber(options.parser, m).threw
  /\ AsTight(ToNumber(options.parser, m).val, MetricNum, Direction)

\* the result r reports a match whose cut is at least as tight as that of
\* the match of the call
MatchesAsTight(r) ==
  /\ r.outcome = "returned"
  /\ r.index >= 0
  /\ AsTight(CutNum(r.index + 1), CutNum(result.index + 1), Direction)

\* C25: with the standards and the options (parser and direction among
\* them) held fixed, a metric whose value is at least as good as that of a
\* metric that matches a standard matches too, at a cut at least as tight.
C25_Monotone ==
  []((Returned /\ result.index >= 0) =>
       \A m \in Metrics : AtLeastAsGood(m) => \A r \in {ResultFor(m)} : MatchesAsTight(r))

\* C25 witness: a match, and a strictly better metric given as a string
\* that matches a strictly tighter cut
C25_Witness ==
  /\ Returned /\ result.index >= 0 /\ options.parser = "default"
  /\ \E m \in Metrics :
       /\ m.t = "str"
       /\ AtLeastAsGood(m)
       /\ \E r \in {ResultFor(m)} :
            /\ MatchesAsTight(r)
            /\ ~NumEq(CutNum(r.index + 1), CutNum(result.index + 1))

\* direction 'auto' with levels of fewer than two labels, each naming a
\* standard whose cut parses
ShortLevels ==
  /\ Returned /\ ~NoStandards
  /\ options.direction = "auto"
  /\ options.hasLevels /\ Len(options.levels) < 2
  /\ LevelsParse

\* C26: with direction 'auto' and fewer than two levels (none, or one that
\* names a standard whose cut parses) the direction falls back to 'lower',
\* with one 'levels cuts are not monotonic' diagnostic and validation.valid
\* false.
C26_ShortLevels ==
  ShortLevels =>
    /\ Cardinality(ErrorsOf({"Auto-direction inference failed: levels cuts are not monotonic"})) = 1
    /\ ~result.validation.valid
    /\ ~IsNaN(MetricNum) =>
         /\ (result.index >= 0) <=> (Qualifying("lower") # {})
         /\ result.index >= 0 =>
              /\ (result.index + 1) \in Qualifying("lower")
              /\ \A j \in Qualifying("lower") :
                   AsTight(CutNum(result.index + 1), CutNum(j), "lower")

\* C26 witness: a single level, no duplicate and no other diagnostic, and a
\* match that 'higher' would not give
C26_Witness ==
  /\ ShortLevels /\ Len(options.levels) = 1
  /\ Len(result.validation.errors) = 1
  /\ result.index >= 0
  /\ (result.index + 1) \notin Qualifying("higher")

\* the diagnostics of the pairwise ordering validation in the result
OrderingDiagnostics == ErrorsOf({"Ordering violation", "Unable to parse cuts for levels"})

\* C27: when direction 'auto' is resolved without an auto-inference
\* diagnostic, levels validation reports no pair of levels; when inference
\* fails for cuts of two or more levels that are not monotonic, levels
\* validation reports at least one pair.
C27_InferenceAgrees ==
  (LevelsValidated /\ options.direction = "auto") =>
    /\ AutoDiagnostics = {} => OrderingDiagnostics = {}
    /\ (/\ ErrorsOf({"Auto-direction inference failed: levels cuts are not monotonic"}) # {}
        /\ Len(options.levels) >= 2)
         => OrderingDiagnostics # {}

\* C27 witness: increasing cuts of two levels, resolved to 'higher' and
\* validated without a diagnostic, although two standards share a label
C27_Witness ==
  /\ LevelsValidated /\ options.direction = "auto"
  /\ LevelsIncrease /\ Len(options.levels) >= 2
  /\ AutoDiagnostics = {} /\ OrderingDiagnostics = {}
  /\ result.outcome = "returned"

====
